---------------------------- MODULE Spec2Model ----------------------------
(***************************************************************************)
(* A model of ext/bcmath/libbcmath/src/recmul.c: bc_multiply and the two   *)
(* multipliers it dispatches to, bc_fast_mul and bc_standard_mul.          *)
(*                                                                         *)
(* The file compiles in two widths (SIZEOF_SIZE_T >= 8 or not) and in two  *)
(* byte orders (BC_LITTLE_ENDIAN or not); the build is part of the state   *)
(* and is chosen by Init.                                                  *)
(*                                                                         *)
(* A BC_UINT_T value does not fit TLC's integers, so it is held as five    *)
(* digits of radix 10000, least significant first (10000^5 > 2 * 2^64).    *)
(* Every C operation on a BC_UINT_T is an operator on that form, and the   *)
(* ones that can leave the native width reduce modulo 2^32 or 2^64.        *)
(***************************************************************************)
EXTENDS Integers, Sequences, FiniteSets, TLC

VARIABLES
    size_t,      \* SIZEOF_SIZE_T of the build: 4 or 8
    le,          \* BC_LITTLE_ENDIAN of the build
    n1, n2,      \* the operands of the running call
    scale,       \* the target scale of the running call
    run,         \* 1: bc_multiply(a, b, s); 2: bc_multiply(b, a, s);
                 \* 3: bc_standard_mul forced on (a, b)
    pc,          \* the position of the running call
    n1_uint, n2_uint, prod_uint,   \* bc_standard_mul's three limb arrays
    count, i, j, \* bc_standard_mul's loop variables
    k, ret,      \* bc_digits_adjustment's index and the place it returns to
    fast_prod,   \* bc_fast_mul's prod_uint
    prod,        \* the number being produced
    pend,        \* the write position in prod.n_value (pptr is 1)
    writes,      \* history: how often each position of prod.n_value was written
    nadjust,     \* history: mid-loop normalizations of the running call
    saved        \* the first call's raw digit array and returned number

vars == <<size_t, le, n1, n2, scale, run, pc, n1_uint, n2_uint, prod_uint,
          count, i, j, k, ret, fast_prod, prod, pend, writes, nadjust, saved>>

-----------------------------------------------------------------------------
(* Build constants, lines 40-48.                                           *)

BASE == 10

BC_MUL_UINT_DIGITS == IF size_t >= 8 THEN 8 ELSE 4

BC_MUL_UINT_OVERFLOW == IF size_t >= 8 THEN 100000000 ELSE 10000

-----------------------------------------------------------------------------
(* BC_UINT_T: five digits of radix 10000, least significant first.         *)

Radix == 10000

UZero == <<0, 0, 0, 0, 0>>

\* ~((BC_UINT_T) 0): 2^32 - 1 or 2^64 - 1.
BC_UINT_MAX ==
    IF size_t >= 8 THEN <<1615, 955, 737, 6744, 1844>>
                   ELSE <<7295, 9496, 42, 0, 0>>

\* 2^32 or 2^64: what a wrapping operation subtracts.
BC_UINT_MODULUS ==
    IF size_t >= 8 THEN <<1616, 955, 737, 6744, 1844>>
                   ELSE <<7296, 9496, 42, 0, 0>>

\* The digits of a value given as five non-negative addends of the radix's
\* powers (carry propagation of the representation, not of the program).
Carry(s) ==
    LET d1 == s[1]
        d2 == s[2] + (d1 \div Radix)
        d3 == s[3] + (d2 \div Radix)
        d4 == s[4] + (d3 \div Radix)
        d5 == s[5] + (d4 \div Radix)
    IN  <<d1 % Radix, d2 % Radix, d3 % Radix, d4 % Radix, d5>>

ULess(u, v) ==
    \E p \in 1..5 : /\ u[p] < v[p]
                    /\ \A q \in (p+1)..5 : u[q] = v[q]

\* u - v for u >= v.
USub(u, v) ==
    LET e1 == u[1] - v[1]
        b1 == IF e1 < 0 THEN 1 ELSE 0
        e2 == u[2] - v[2] - b1
        b2 == IF e2 < 0 THEN 1 ELSE 0
        e3 == u[3] - v[3] - b2
        b3 == IF e3 < 0 THEN 1 ELSE 0
        e4 == u[4] - v[4] - b3
        b4 == IF e4 < 0 THEN 1 ELSE 0
        e5 == u[5] - v[5] - b4
    IN  <<e1 + b1 * Radix, e2 + b2 * Radix, e3 + b3 * Radix, e4 + b4 * Radix, e5>>

\* The true sum and the true product of limbs, before any reduction.
USum(u, v) == Carry(<<u[1] + v[1], u[2] + v[2], u[3] + v[3], u[4] + v[4], u[5] + v[5]>>)

UProduct(x, y) ==
    LET x0 == x % Radix
        x1 == x \div Radix
        y0 == y % Radix
        y1 == y \div Radix
    IN  Carry(<<x0 * y0, x0 * y1 + x1 * y0, x1 * y1, 0, 0>>)

\* Reduction of a true value below twice the modulus to the native width.
Wrap(u) == IF ULess(BC_UINT_MAX, u) THEN USub(u, BC_UINT_MODULUS) ELSE u

\* The C operators on BC_UINT_T.
UAdd(u, v) == Wrap(USum(u, v))

UMul(x, y) == Wrap(UProduct(x, y))

\* u / BC_MUL_UINT_OVERFLOW and u % BC_MUL_UINT_OVERFLOW.
UDivOverflow(u) ==
    IF size_t >= 8 THEN <<u[3], u[4], u[5], 0, 0>>
                   ELSE <<u[2], u[3], u[4], u[5], 0>>

UModOverflow(u) ==
    IF size_t >= 8 THEN <<u[1], u[2], 0, 0, 0>>
                   ELSE <<u[1], 0, 0, 0, 0>>

\* u / 10000 and u % 10000 (line 289, 290).
UDiv10000(u) == <<u[2], u[3], u[4], u[5], 0>>

UMod10000(u) == <<u[1], 0, 0, 0, 0>>

\* u / BASE and u % BASE (lines 166-167, 301-302).
UDivBase(u) ==
    LET c5 == u[5]
        c4 == (c5 % BASE) * Radix + u[4]
        c3 == (c4 % BASE) * Radix + u[3]
        c2 == (c3 % BASE) * Radix + u[2]
        c1 == (c2 % BASE) * Radix + u[1]
    IN  <<c1 \div BASE, c2 \div BASE, c3 \div BASE, c4 \div BASE, c5 \div BASE>>

UModBase(u) == u[1] % BASE

\* A limb (below 10^8) as a BC_UINT_T, and back.
ToUint(x) == <<x % Radix, x \div Radix, 0, 0, 0>>

IsLimb(u) == u[3] = 0 /\ u[4] = 0 /\ u[5] = 0

FromUint(u) == u[1] + u[2] * Radix

\* BC_MUL_MAX_ADD_COUNT with one division by BC_MUL_UINT_OVERFLOW too many.
BC_MUL_MAX_ADD_COUNT_cubed ==
    FromUint(UDivOverflow(UDivOverflow(UDivOverflow(BC_UINT_MAX))))

\* ~0 / (BC_MUL_UINT_OVERFLOW * BC_MUL_UINT_OVERFLOW), line 48.
BC_MUL_MAX_ADD_COUNT ==
    FromUint(UDivOverflow(UDivOverflow(BC_UINT_MAX)))

-----------------------------------------------------------------------------
(* The word packer, lines 61-145.  A machine word is the sequence of its   *)
(* bytes, least significant first; str is a run of bytes in memory order.  *)

RECURSIVE Reverse(_)
Reverse(s) == IF s = <<>> THEN <<>> ELSE Append(Reverse(Tail(s)), Head(s))

\* memcpy(&tmp, str, sizeof(tmp)): on a little-endian build the first byte in
\* memory is the least significant one, on a big-endian build the most.
LoadWord(str) == IF le THEN str ELSE Reverse(str)

BC_BSWAP(w) == Reverse(w)

\* One round of the divide-and-conquer parse on lanes given least significant
\* first: (tmp & evenmask) * weight + ((tmp & oddmask) >> lanewidth).  The
\* lower lane of each pair is weighted, the upper one is shifted down to it.
CombineLanes(lanes, mask, weight) ==
    [m \in 1..(Len(lanes) \div 2) |->
        (lanes[2 * m] % mask) + (lanes[2 * m - 1] % mask) * weight]

\* bc_parse_chunk_chars without the byte swap of a big-endian build.
bc_parse_chunk_chars_no_swap(str) ==
    LET tmp  == LoadWord(str)
        t16  == CombineLanes(tmp, 16, 10)
        t32  == CombineLanes(t16, 256, 100)
    IN  IF size_t >= 8 THEN CombineLanes(t32, 65536, 10000)[1] ELSE t32[1]

bc_parse_chunk_chars(str) ==
    LET raw  == LoadWord(str)
        tmp  == IF ~le THEN BC_BSWAP(raw) ELSE raw
        t16  == CombineLanes(tmp, 16, 10)
        t32  == CombineLanes(t16, 256, 100)
    IN  IF size_t >= 8 THEN CombineLanes(t32, 65536, 10000)[1] ELSE t32[1]

\* The loop of lines 126-130, at its t-th iteration with n at index p.
RECURSIVE PartialConvertLoop(_, _, _, _, _, _)
PartialConvertLoop(n, p, len, t, num, base) ==
    IF t < len
    THEN PartialConvertLoop(n, p - 1, len, t + 1, num + n[p] * base, base * BASE)
    ELSE num

\* n is the digit array, nend the index of the character the pointer is at.
bc_partial_convert_to_uint(n, nend, len) ==
    IF len = BC_MUL_UINT_DIGITS
    THEN bc_parse_chunk_chars(SubSeq(n, nend - BC_MUL_UINT_DIGITS + 1, nend))
    ELSE PartialConvertLoop(n, nend, len, 0, 0, 1)

MIN(x, y) == IF x < y THEN x ELSE y

MAX(x, y) == IF x > y THEN x ELSE y

RECURSIVE bc_convert_to_uint(_, _, _)
bc_convert_to_uint(n, nend, nlen) ==
    IF nlen > 0
    THEN LET len == MIN(BC_MUL_UINT_DIGITS, nlen)
         IN  <<bc_partial_convert_to_uint(n, nend, len)>>
                \o bc_convert_to_uint(n, nend - len, nlen - len)
    ELSE <<>>

-----------------------------------------------------------------------------
(* The unpacker, lines 171-215.                                            *)

BC_ENCODE_LUT(A, B) == IF le THEN A + B * 16 ELSE B + A * 16

LUT == [x \in 0..99 |-> BC_ENCODE_LUT(x \div 10, x % 10)]

\* LUT[x]; a read past the table yields whatever byte g lies there.
LUTRead(x, g) == IF x \in DOMAIN LUT THEN LUT[x] ELSE g

bc_expand_lut(c) == (c % 16) + (c \div 16) * 256

\* The four bytes written at str, in memory order.
bc_write_bcd_representation(value, g) ==
    LET upper  == value \div 100
        lower  == value % 100
        digits == IF le
                  THEN bc_expand_lut(LUTRead(lower, g)) * 65536 + bc_expand_lut(LUTRead(upper, g))
                  ELSE bc_expand_lut(LUTRead(upper, g)) * 65536 + bc_expand_lut(LUTRead(lower, g))
        word   == <<digits % 256, (digits \div 256) % 256,
                    (digits \div 65536) % 256, digits \div 16777216>>
    IN  IF le THEN word ELSE Reverse(word)

-----------------------------------------------------------------------------
(* Numbers.  A bc_num is [n_sign, n_len, n_scale, n_value]; n_value holds   *)
(* the digits from the n_value pointer on, most significant first.         *)

PLUS == "PLUS"

MINUS == "MINUS"

\* A digit cell that bc_new_num_nonzeroed allocated and nothing wrote yet.
UNINIT == -1

\* The sequence of n elements v.
Fill(n, v) == [p \in 1..n |-> v]

bc_new_num_nonzeroed(length, sc) ==
    [n_sign |-> PLUS, n_len |-> length, n_scale |-> sc,
     n_value |-> Fill(length + sc, UNINIT)]

\* while (*num->n_value == 0 && num->n_len > 1) { num->n_value++; num->n_len--; }
RECURSIVE bc_rm_leading_zeros(_)
bc_rm_leading_zeros(num) ==
    IF num.n_value[1] = 0 /\ num.n_len > 1
    THEN bc_rm_leading_zeros([num EXCEPT !.n_value = Tail(@), !.n_len = @ - 1])
    ELSE num

\* Every digit of the number, up to its scale, is zero.
bc_is_zero(num) ==
    \A p \in 1..(num.n_len + num.n_scale) : num.n_value[p] = 0

\* *p = v where p is a position of buf; a store outside buf lands elsewhere.
Poke(buf, p, v) == IF p \in 1..Len(buf) THEN [buf EXCEPT ![p] = v] ELSE buf

Poke4(buf, p, b) ==
    Poke(Poke(Poke(Poke(buf, p, b[1]), p + 1, b[2]), p + 2, b[3]), p + 3, b[4])

Bump(w, p) == IF p \in 1..Len(w) THEN [w EXCEPT ![p] = @ + 1] ELSE w

Bump4(w, p) == Bump(Bump(Bump(Bump(w, p), p + 1), p + 2), p + 3)

-----------------------------------------------------------------------------
(* bc_multiply's locals, lines 317-320, and bc_standard_mul's, 230-234.    *)

len1 == n1.n_len + n1.n_scale

len2 == n2.n_len + n2.n_scale

full_scale == n1.n_scale + n2.n_scale

\* prod_scale with an operand's scale left out of the maximum.
prod_scale_without_n2 == MIN(full_scale, MAX(scale, n1.n_scale))

prod_scale_without_n1 == MIN(full_scale, MAX(scale, n2.n_scale))

prod_scale == MIN(full_scale, MAX(scale, MAX(n1.n_scale, n2.n_scale)))

prodlen == len1 + len2

n1_arr_size == (len1 + BC_MUL_UINT_DIGITS - 1) \div BC_MUL_UINT_DIGITS

n2_arr_size == (len2 + BC_MUL_UINT_DIGITS - 1) \div BC_MUL_UINT_DIGITS

\* prod_arr_size without the "- 1".
prod_arr_size_plus_one == n1_arr_size + n2_arr_size

prod_arr_size == n1_arr_size + n2_arr_size - 1

\* ProductSign with its two outcomes exchanged.
ProductSignInverted == IF n1.n_sign = n2.n_sign THEN MINUS ELSE PLUS

\* Line 330.
ProductSign == IF n1.n_sign = n2.n_sign THEN PLUS ELSE MINUS

\* ThresholdReached one iteration late.
ThresholdPassed == count > BC_MUL_MAX_ADD_COUNT

\* Line 263.
ThresholdReached == count >= BC_MUL_MAX_ADD_COUNT

\* MulAdd storing the product instead of adding it.
MulStore(p, x, y) ==
    [p EXCEPT ![x + y + 1] = UMul(n1_uint[x + 1], n2_uint[y + 1])]

\* Line 269: prod_uint[i + j] += n1_uint[i] * n2_uint[j].
MulAdd(p, x, y) ==
    [p EXCEPT ![x + y + 1] = UAdd(@, UMul(n1_uint[x + 1], n2_uint[y + 1]))]

\* AdjustLimb without the reduction of the limb the carry came from.
AdjustLimbNoMod(p, x) ==
    [p EXCEPT ![x + 2] = UAdd(@, UDivOverflow(p[x + 1]))]

\* Lines 56-57: prod_uint[i + 1] += prod_uint[i] / BC_MUL_UINT_OVERFLOW;
\* prod_uint[i] %= BC_MUL_UINT_OVERFLOW.
AdjustLimb(p, x) ==
    [p EXCEPT ![x + 2] = UAdd(@, UDivOverflow(p[x + 1])),
              ![x + 1] = UModOverflow(@)]

\* The fast path's condition, line 323.
FastPath == len1 <= BC_MUL_UINT_DIGITS /\ len2 <= BC_MUL_UINT_DIGITS

\* Where the multiplier returns to: bc_multiply's clean-up, or, for the forced
\* call of bc_standard_mul, its caller.
ReturnPc == IF run = 3 THEN "done" ELSE "cleanup"

\* The value handed to bc_write_bcd_representation's uint32_t parameter.  Past
\* a limb's range the conversion may truncate; such a value is out of the
\* table's range all the same and stands for itself here.
BcdArg(u) == IF IsLimb(u) THEN FromUint(u) ELSE Radix * Radix

\* What may lie past the end of LUT.
OutOfTable == {0, 255}

-----------------------------------------------------------------------------
(* The actions.                                                            *)

\* Lines 312-327: the dispatch.
bc_multiply ==
    /\ pc = "call"
    /\ pc' = IF FastPath THEN "fast" ELSE "standard"
    /\ UNCHANGED <<size_t, le, n1, n2, scale, run, n1_uint, n2_uint, prod_uint,
                   count, i, j, k, ret, fast_prod, prod, pend, writes, nadjust, saved>>

\* Lines 151-163.
bc_fast_mul ==
    /\ pc = "fast"
    /\ fast_prod' = UMul(bc_partial_convert_to_uint(n1.n_value, len1, len1),
                         bc_partial_convert_to_uint(n2.n_value, len2, len2))
    /\ prod' = bc_new_num_nonzeroed(prodlen, 0)
    /\ pend' = prodlen
    /\ writes' = Fill(prodlen, 0)
    /\ pc' = "fast_emit"
    /\ UNCHANGED <<size_t, le, n1, n2, scale, run, n1_uint, n2_uint, prod_uint,
                   count, i, j, k, ret, nadjust, saved>>

\* Lines 165-169: one iteration of the loop, or its end and the return.
FastEmit ==
    /\ pc = "fast_emit"
    /\ IF pend >= 1
       THEN /\ prod' = [prod EXCEPT !.n_value = Poke(@, pend, UModBase(fast_prod))]
            /\ writes' = Bump(writes, pend)
            /\ fast_prod' = UDivBase(fast_prod)
            /\ pend' = pend - 1
            /\ pc' = pc
       ELSE /\ pc' = ReturnPc
            /\ UNCHANGED <<prod, writes, fast_prod, pend>>
    /\ UNCHANGED <<size_t, le, n1, n2, scale, run, n1_uint, n2_uint, prod_uint,
                   count, i, j, k, ret, nadjust, saved>>

\* Lines 225-256.
bc_standard_mul ==
    /\ pc = "standard"
    /\ prod_uint' = Fill(prod_arr_size, UZero)
    /\ n1_uint' = bc_convert_to_uint(n1.n_value, len1, len1)
    /\ n2_uint' = bc_convert_to_uint(n2.n_value, len2, len2)
    /\ count' = 0
    /\ i' = 0
    /\ pc' = "outer"
    /\ UNCHANGED <<size_t, le, n1, n2, scale, run, j, k, ret, fast_prod, prod,
                   pend, writes, nadjust, saved>>

\* Lines 257, 263-264, 277: the outer loop's test, the threshold's test and
\* the two calls of bc_digits_adjustment.
MulOuter ==
    /\ pc = "outer"
    /\ IF i < n1_arr_size
       THEN IF ThresholdReached
            THEN pc' = "adjust" /\ k' = 0 /\ ret' = "reset"
            ELSE pc' = "count" /\ UNCHANGED <<k, ret>>
       ELSE pc' = "adjust" /\ k' = 0 /\ ret' = "convert"
    /\ UNCHANGED <<size_t, le, n1, n2, scale, run, n1_uint, n2_uint, prod_uint,
                   count, i, j, fast_prod, prod, pend, writes, nadjust, saved>>

\* Lines 265-268: count = 0 when the mid-loop normalization has just run,
\* then count++ and the inner loop's start.
MulCount ==
    /\ pc \in {"reset", "count"}
    /\ count' = (IF pc = "reset" THEN 0 ELSE count) + 1
    /\ nadjust' = IF pc = "reset" THEN nadjust + 1 ELSE nadjust
    /\ j' = 0
    /\ pc' = "inner"
    /\ UNCHANGED <<size_t, le, n1, n2, scale, run, n1_uint, n2_uint, prod_uint,
                   i, k, ret, fast_prod, prod, pend, writes, saved>>

\* Lines 268-271: one multiply-add, or the inner loop's end and i++.
MulInner ==
    /\ pc = "inner"
    /\ IF j < n2_arr_size
       THEN /\ prod_uint' = MulAdd(prod_uint, i, j)
            /\ j' = j + 1
            /\ UNCHANGED <<i, pc>>
       ELSE /\ i' = i + 1
            /\ pc' = "outer"
            /\ UNCHANGED <<prod_uint, j>>
    /\ UNCHANGED <<size_t, le, n1, n2, scale, run, n1_uint, n2_uint,
                   count, k, ret, fast_prod, prod, pend, writes, nadjust, saved>>

\* Lines 53-59: one iteration of the loop, or its end and the return.
bc_digits_adjustment ==
    /\ pc = "adjust"
    /\ IF k < prod_arr_size - 1
       THEN /\ prod_uint' = AdjustLimb(prod_uint, k)
            /\ k' = k + 1
            /\ pc' = pc
       ELSE /\ pc' = ret
            /\ UNCHANGED <<prod_uint, k>>
    /\ UNCHANGED <<size_t, le, n1, n2, scale, run, n1_uint, n2_uint,
                   count, i, j, ret, fast_prod, prod, pend, writes, nadjust, saved>>

\* Lines 279-283.
Convert ==
    /\ pc = "convert"
    /\ prod' = bc_new_num_nonzeroed(prodlen, 0)
    /\ pend' = prodlen
    /\ writes' = Fill(prodlen, 0)
    /\ i' = 0
    /\ pc' = "emit"
    /\ UNCHANGED <<size_t, le, n1, n2, scale, run, n1_uint, n2_uint, prod_uint,
                   count, j, k, ret, fast_prod, nadjust, saved>>

\* Lines 284-294: one limb written as BC_MUL_UINT_DIGITS digits, or the end
\* of the loop.
EmitLimb ==
    /\ pc = "emit"
    /\ IF i < prod_arr_size - 1
       THEN /\ \E g \in OutOfTable :
                 prod' = [prod EXCEPT !.n_value =
                     IF BC_MUL_UINT_DIGITS = 4
                     THEN Poke4(@, pend - 3,
                            bc_write_bcd_representation(BcdArg(prod_uint[i + 1]), g))
                     ELSE Poke4(Poke4(@, pend - 7,
                            bc_write_bcd_representation(BcdArg(UDiv10000(prod_uint[i + 1])), g)),
                            pend - 3,
                            bc_write_bcd_representation(BcdArg(UMod10000(prod_uint[i + 1])), g))]
            /\ writes' = IF BC_MUL_UINT_DIGITS = 4
                         THEN Bump4(writes, pend - 3)
                         ELSE Bump4(Bump4(writes, pend - 7), pend - 3)
            /\ pend' = pend - BC_MUL_UINT_DIGITS
            /\ i' = i + 1
            /\ pc' = pc
       ELSE /\ pc' = "last"
            /\ UNCHANGED <<prod, writes, pend, i>>
    /\ UNCHANGED <<size_t, le, n1, n2, scale, run, n1_uint, n2_uint, prod_uint,
                   count, j, k, ret, fast_prod, nadjust, saved>>

\* Lines 296-305: one digit of the last limb, or the end of the loop and the
\* return.
EmitLast ==
    /\ pc = "last"
    /\ IF pend >= 1
       THEN /\ prod' = [prod EXCEPT !.n_value = Poke(@, pend, UModBase(prod_uint[i + 1]))]
            /\ writes' = Bump(writes, pend)
            /\ prod_uint' = [prod_uint EXCEPT ![i + 1] = UDivBase(@)]
            /\ pend' = pend - 1
            /\ pc' = pc
       ELSE /\ pc' = ReturnPc
            /\ UNCHANGED <<prod, writes, prod_uint, pend>>
    /\ UNCHANGED <<size_t, le, n1, n2, scale, run, n1_uint, n2_uint,
                   count, i, j, k, ret, fast_prod, nadjust, saved>>

\* Lines 329-337.
Cleanup ==
    /\ pc = "cleanup"
    /\ LET signed  == [prod EXCEPT
                         !.n_sign = ProductSign,
                         !.n_len = @ - full_scale,
                         !.n_scale = prod_scale]
           trimmed == bc_rm_leading_zeros(signed)
           result  == IF bc_is_zero(trimmed)
                      THEN [trimmed EXCEPT !.n_sign = PLUS]
                      ELSE trimmed
       IN  /\ prod' = result
           /\ saved' = IF run = 1
                       THEN [raw |-> prod.n_value, out |-> result]
                       ELSE saved
    /\ pc' = "done"
    /\ UNCHANGED <<size_t, le, n1, n2, scale, run, n1_uint, n2_uint, prod_uint,
                   count, i, j, k, ret, fast_prod, pend, writes, nadjust>>

\* The callers: the product the other way round, then, where both operands
\* fit a limb, bc_standard_mul forced on the operands the fast path took.
NoNum == [n_sign |-> PLUS, n_len |-> 0, n_scale |-> 0, n_value |-> <<>>]

NextCall ==
    /\ pc = "done"
    /\ \/ run = 1 /\ run' = 2 /\ pc' = "call"
       \/ run = 2 /\ FastPath /\ run' = 3 /\ pc' = "standard"
    /\ n1' = n2
    /\ n2' = n1
    /\ n1_uint' = <<>>
    /\ n2_uint' = <<>>
    /\ prod_uint' = <<>>
    /\ count' = 0
    /\ i' = 0
    /\ j' = 0
    /\ k' = 0
    /\ ret' = "none"
    /\ fast_prod' = UZero
    /\ prod' = NoNum
    /\ pend' = 0
    /\ writes' = <<>>
    /\ nadjust' = 0
    /\ UNCHANGED <<size_t, le, scale, saved>>

Next ==
    \/ bc_multiply
    \/ bc_fast_mul
    \/ FastEmit
    \/ bc_standard_mul
    \/ MulOuter
    \/ MulCount
    \/ MulInner
    \/ bc_digits_adjustment
    \/ Convert
    \/ EmitLimb
    \/ EmitLast
    \/ Cleanup
    \/ NextCall

-----------------------------------------------------------------------------
(* The operands the specifications draw from.                              *)

\* The digit array whose p-th digit is (m * p + c) % 10: all zeros (0, 0), all
\* nines (0, 9), 1234567890... (1, 0), 4567890123... (1, 3), 0123456789...
\* (1, 9), 3692581470... (3, 0), 8529630741... (7, 1).
Pattern(len, m, c) == [p \in 1..len |-> (m * p + c) % 10]

Operand(sign, len, sc, mc) ==
    [n_sign |-> sign, n_len |-> len - sc, n_scale |-> sc,
     n_value |-> Pattern(len, mc[1], mc[2])]

\* The well-formed operands of the given signs, lengths, scales and digit
\* patterns: at least one integer digit.
Operands(signs, lens, scales, patterns) ==
    UNION { { Operand(sign, len, sc, mc) :
                sign \in signs,
                sc \in {x \in scales : x < len},
                mc \in patterns } : len \in lens }

\* The state at the call of bc_multiply(a, b, s), for <<a, b, s>> in calls.
InitWith(builds, calls) ==
    /\ \E b \in builds : size_t = b[1] /\ le = b[2]
    /\ \E c \in calls : n1 = c[1] /\ n2 = c[2] /\ scale = c[3]
    /\ run = 1
    /\ pc = "call"
    /\ n1_uint = <<>>
    /\ n2_uint = <<>>
    /\ prod_uint = <<>>
    /\ count = 0
    /\ i = 0
    /\ j = 0
    /\ k = 0
    /\ ret = "none"
    /\ fast_prod = UZero
    /\ prod = NoNum
    /\ pend = 0
    /\ writes = <<>>
    /\ nadjust = 0
    /\ saved = [raw |-> <<>>, out |-> NoNum]

AllBuilds == {<<4, TRUE>>, <<4, FALSE>>, <<8, TRUE>>, <<8, FALSE>>}

Signs == {PLUS, MINUS}

Nines == <<0, 9>>

\* The longest operand of Spec and SpecDigits, in digits: past the fast path's
\* limit of both builds.
MaxLen == 9

\* The largest operand scale of SpecScale, and its largest target scale.
MaxOpScale == 2

MaxScale == 3

\* The limb counts of SpecLarge's long operands on the 32-bit build, whose
\* threshold is 42: one past it and one more, and more than twice it.
MidLimbs == 44

LargeLimbs == 87

\* A number given by its sign, its digits and its scale.
Num(sign, digits, sc) ==
    [n_sign |-> sign, n_len |-> Len(digits) - sc, n_scale |-> sc, n_value |-> digits]

\* The concrete multiplications the specification names.
Scenarios ==
    { <<Num(PLUS, <<1, 2, 3>>, 0), Num(PLUS, <<4, 5, 6>>, 0), 0>>,
      <<Num(PLUS, <<0, 1>>, 1), Num(PLUS, <<0, 2>>, 1), 2>>,
      <<Num(MINUS, <<7>>, 0), Num(PLUS, <<3>>, 0), 0>>,
      <<Num(PLUS, <<0>>, 0), Num(PLUS, Pattern(18, 0, 9), 0), 0>>,
      <<Num(MINUS, <<5>>, 0), Num(PLUS, <<0>>, 0), 0>>,
      <<Num(PLUS, <<1, 2, 3>>, 2), Num(PLUS, <<4, 5>>, 1), 10>>,
      <<Num(PLUS, <<1, 2, 3, 4, 5>>, 4), Num(PLUS, <<1>>, 0), 2>> }

\* Spec: operands of every length up to MaxLen and scale 0 or 1, in every
\* build, with the target scale below and at the exact product's scale.
Init ==
    InitWith(AllBuilds,
        (Operands(Signs, 1..MaxLen, {0, 1}, {Nines, <<1, 9>>, <<1, 3>>})
            \X Operands({PLUS}, 1..MaxLen, {0, 1}, {Nines, <<1, 0>>})
            \X {0, 2})
        \cup Scenarios)

Spec == Init /\ [][Next]_vars

\* SpecScale: short operands of every sign and scale, every target scale.
InitScale ==
    InitWith({<<4, TRUE>>, <<8, FALSE>>},
        (Operands(Signs, 1..(MaxOpScale + 2), 0..MaxOpScale, {<<0, 0>>, Nines, <<1, 9>>})
            \X Operands(Signs, 1..(MaxOpScale + 2), 0..MaxOpScale, {<<0, 0>>, Nines, <<1, 9>>})
            \X (0..MaxScale))
        \cup Scenarios)

SpecScale == InitScale /\ [][Next]_vars

\* SpecDigits: integers of every length up to MaxLen and seven digit patterns,
\* in every build.
InitDigits ==
    InitWith(AllBuilds,
        Operands({PLUS}, 1..MaxLen, {0},
                 {<<0, 0>>, Nines, <<1, 0>>, <<1, 3>>, <<1, 9>>, <<3, 0>>, <<7, 1>>})
            \X Operands({PLUS}, 1..MaxLen, {0},
                 {<<0, 0>>, Nines, <<1, 0>>, <<1, 3>>, <<1, 9>>, <<3, 0>>, <<7, 1>>})
            \X {0})

SpecDigits == InitDigits /\ [][Next]_vars

\* SpecLarge: operands long enough for the mid-loop normalization (their limbs
\* full or with a short top limb, all nines or mixed), the 20-digit operands,
\* and a pair the fast path takes.
InitLarge ==
    \/ InitWith({<<4, TRUE>>, <<8, TRUE>>},
          { <<Operand(PLUS, l1, 0, mc), Operand(MINUS, l2, 0, mc), 0>> :
              l1 \in {4 * LargeLimbs, 4 * LargeLimbs - 3},
              l2 \in {4 * MidLimbs, 4 * MidLimbs - 3},
              mc \in {Nines, <<1, 0>>} })
    \/ InitWith(AllBuilds,
          (Operands({PLUS}, {2, 20}, {0}, {Nines, <<1, 0>>, <<7, 1>>})
              \X Operands({PLUS}, {2, 20}, {0}, {Nines, <<7, 1>>})
              \X {0}))

SpecLarge == InitLarge /\ [][Next]_vars

-----------------------------------------------------------------------------
(* The reference the claims compare with: the product of two digit arrays  *)
(* by columns in base 10, one digit and one carry at a time.               *)

\* The sum of d1[x] * d2[y] over the digits x, y (counted from the least
\* significant, from 0) with x + y = p, from x on.
RECURSIVE ColumnSum(_, _, _, _)
ColumnSum(d1, d2, p, x) ==
    IF x > p \/ x >= Len(d1)
    THEN 0
    ELSE (IF p - x < Len(d2) THEN d1[Len(d1) - x] * d2[Len(d2) - (p - x)] ELSE 0)
         + ColumnSum(d1, d2, p, x + 1)

\* The digits of the product from column p up, most significant first.
RECURSIVE ProductFrom(_, _, _, _)
ProductFrom(d1, d2, p, carry) ==
    IF p >= Len(d1) + Len(d2)
    THEN <<>>
    ELSE LET t == ColumnSum(d1, d2, p, 0) + carry
         IN  Append(ProductFrom(d1, d2, p + 1, t \div 10), t % 10)

\* The exact product of the integers d1 and d2 as Len(d1) + Len(d2) digits.
ExactProduct(d1, d2) == ProductFrom(d1, d2, 0, 0)

\* The digits a number holds: its integer digits, then its scale's.
Digits(num) == SubSeq(num.n_value, 1, num.n_len + num.n_scale)

\* The scale the contract gives the product of scales s1 and s2 at target s.
ResultScale(s1, s2, s) ==
    LET hi == IF s1 > s2 THEN s1 ELSE s2
        m  == IF s > hi THEN s ELSE hi
    IN  IF s1 + s2 < m THEN s1 + s2 ELSE m

\* The exact product of the running call's operands, cut after the result
\* scale's fractional digits: the integer digits, then ResultScale of them.
ExactTruncated ==
    SubSeq(ExactProduct(n1.n_value, n2.n_value), 1,
           n1.n_len + n2.n_len + ResultScale(n1.n_scale, n2.n_scale, scale))

\* bc_multiply has returned.
Returned == pc = "done" /\ run \in {1, 2}

AllZero(d) == \A p \in 1..Len(d) : d[p] = 0

\* C1: bc_multiply returns the exact product with its fraction truncated to
\* the result scale: the returned digits, with the leading zeros the clean-up
\* removed put back, are the exact product's digits down to that scale.
C1_ExactProduct ==
    Returned =>
        /\ prod.n_scale = ResultScale(n1.n_scale, n2.n_scale, scale)
        /\ prod.n_len >= 1
        /\ prod.n_len <= n1.n_len + n2.n_len
        /\ Fill(n1.n_len + n2.n_len - prod.n_len, 0) \o Digits(prod) = ExactTruncated

\* C2: the returned scale is min(n1.scale + n2.scale, max(target, n1.scale,
\* n2.scale)); it is at most the sum of the operands' scales and at least each.
C2_ResultScale ==
    Returned =>
        /\ prod.n_scale = ResultScale(n1.n_scale, n2.n_scale, scale)
        /\ prod.n_scale <= n1.n_scale + n2.n_scale
        /\ prod.n_scale >= n1.n_scale
        /\ prod.n_scale >= n2.n_scale

\* C3: a returned number whose digits are all zero is PLUS; any other is PLUS
\* exactly when the operands' signs are equal.
C3_Sign ==
    Returned =>
        IF AllZero(Digits(prod))
        THEN prod.n_sign = PLUS
        ELSE (prod.n_sign = PLUS) <=> (n1.n_sign = n2.n_sign)

\* C4: bc_multiply(b, a, s) returns the sign, integer length, scale and digits
\* that bc_multiply(a, b, s) returned.
C4_Commutative ==
    (pc = "done" /\ run = 2) =>
        /\ prod.n_sign = saved.out.n_sign
        /\ prod.n_len = saved.out.n_len
        /\ prod.n_scale = saved.out.n_scale
        /\ Digits(prod) = Digits(saved.out)

\* C5 as the specification states it: 1.2345 * 1 at target scale 2 has scale 2
\* and the value 1.23.
IsC5Call ==
    /\ Returned
    /\ run = 1
    /\ n1 = Num(PLUS, <<1, 2, 3, 4, 5>>, 4)
    /\ n2 = Num(PLUS, <<1>>, 0)
    /\ scale = 2

C5_AsStated ==
    IsC5Call => prod.n_scale = 2 /\ prod.n_len = 1 /\ Digits(prod) = <<1, 2, 3>>

\* C5, amended: 1.2345 * 1 at target scale 2 has scale 4, the scale of 1.2345,
\* and the value 1.2345: no digit is dropped.
C5_KeepsOperandScale ==
    IsC5Call =>
        /\ prod.n_sign = PLUS
        /\ prod.n_scale = 4
        /\ prod.n_len = 1
        /\ Digits(prod) = <<1, 2, 3, 4, 5>>

\* C6: where both operands fit a limb, bc_standard_mul forced on them writes
\* the len1 + len2 digits bc_fast_mul wrote; and operands of W and W + 1
\* digits, through the path bc_multiply picks, give the exact product's digits.
C6_PathsAgree ==
    /\ (pc = "done" /\ run = 3) =>
          /\ Len(prod.n_value) = len1 + len2
          /\ Len(saved.raw) = len1 + len2
          /\ prod.n_value = saved.raw
    /\ (pc = "cleanup"
          /\ len1 \in {BC_MUL_UINT_DIGITS, BC_MUL_UINT_DIGITS + 1}
          /\ len2 \in {BC_MUL_UINT_DIGITS, BC_MUL_UINT_DIGITS + 1}) =>
          prod.n_value = ExactProduct(n1.n_value, n2.n_value)

\* C7: no multiply-add and no carry addition has a true value above the
\* native maximum, given limbs below 10^W.
C7_NoWrap ==
    /\ (pc = "inner" /\ j < n2_arr_size) =>
          /\ n1_uint[i + 1] < BC_MUL_UINT_OVERFLOW
          /\ n2_uint[j + 1] < BC_MUL_UINT_OVERFLOW
          /\ ~ULess(BC_UINT_MAX, UProduct(n1_uint[i + 1], n2_uint[j + 1]))
          /\ ~ULess(BC_UINT_MAX,
                    USum(prod_uint[i + j + 1], UProduct(n1_uint[i + 1], n2_uint[j + 1])))
    /\ (pc = "adjust" /\ k < prod_arr_size - 1) =>
          ~ULess(BC_UINT_MAX, USum(prod_uint[k + 2], UDivOverflow(prod_uint[k + 1])))

\* C8: bc_standard_mul writes each of the len1 + len2 positions exactly once:
\* no bulk write starts before the buffer, every bulk write lands on positions
\* not yet written, the scalar loop starts at the position the bulk writes
\* stopped at, and when it ends every position was written once and the last
\* limb is zero.
C8_EachDigitOnce ==
    /\ (pc \in {"emit", "last"}) =>
          /\ Len(prod.n_value) = len1 + len2
          /\ \A p \in 1..Len(writes) : writes[p] = (IF p > pend THEN 1 ELSE 0)
          /\ \A p \in 1..Len(writes) : (writes[p] = 1) <=> (prod.n_value[p] \in 0..9)
    /\ (pc = "emit" /\ i < prod_arr_size - 1) => pend - BC_MUL_UINT_DIGITS + 1 >= 1
    /\ (pc = "emit") => pend = len1 + len2 - BC_MUL_UINT_DIGITS * i
    /\ (pc = "last") =>
          /\ i = prod_arr_size - 1
          /\ pend <= len1 + len2 - BC_MUL_UINT_DIGITS * (n1_arr_size + n2_arr_size - 2)
          /\ pend >= 0
          /\ (pend = 0 => prod_uint[i + 1] = UZero)

\* The value the accumulator represents, the sum of limb k times 10^(W * k), as
\* digits of radix 10000, least significant first.
AccColumn(p, q) ==
    LET D == BC_MUL_UINT_DIGITS \div 4
        Term(x) == IF x \in 1..Len(p) /\ (q - (x - 1) * D) \in 1..5
                   THEN p[x][q - (x - 1) * D] ELSE 0
        x0 == (q - 1) \div D + 1
    IN  Term(x0) + Term(x0 - 1) + Term(x0 - 2) + Term(x0 - 3) + Term(x0 - 4)

RECURSIVE AccDigits(_, _, _)
AccDigits(p, q, carry) ==
    IF q > (BC_MUL_UINT_DIGITS \div 4) * Len(p) + 5
    THEN <<>>
    ELSE LET t == AccColumn(p, q) + carry
         IN  <<t % Radix>> \o AccDigits(p, q + 1, t \div Radix)

AccValue(p) == AccDigits(p, 1, 0)

\* The values EmitLimb hands to bc_write_bcd_representation for limb u.
BcdArgs(u) ==
    IF BC_MUL_UINT_DIGITS = 4
    THEN {BcdArg(u)}
    ELSE {BcdArg(UDiv10000(u)), BcdArg(UMod10000(u))}

\* C9, the state part: after the final normalization every limb but the last
\* is below 10^W, and every value unpacked is below 10000 with both table
\* indices in 0..99.
C9_LimbsInRange ==
    /\ (pc \in {"convert", "emit"}) =>
          \A x \in 1..(prod_arr_size - 1) :
              IsLimb(prod_uint[x]) /\ FromUint(prod_uint[x]) < BC_MUL_UINT_OVERFLOW
    /\ (pc = "emit" /\ i < prod_arr_size - 1) =>
          \A v \in BcdArgs(prod_uint[i + 1]) :
              /\ v < 10000
              /\ (v \div 100) \in 0..99
              /\ (v % 100) \in 0..99
              /\ (v \div 100) \in DOMAIN LUT
              /\ (v % 100) \in DOMAIN LUT

\* C9, the step part: a step of bc_digits_adjustment leaves the represented
\* value as it was.
C9_ValueKept ==
    (pc = "adjust") => AccValue(prod_uint') = AccValue(prod_uint)

\* C9: the unpack precondition holds at every call, and the normalization that
\* establishes it keeps the represented value.
C9_UnpackPrecondition == [](C9_LimbsInRange) /\ [][C9_ValueKept]_vars

\* C10 as the specification states it: the mid-loop normalization has fired
\* at least twice when the accumulation of a 20-digit by 20-digit product ends.
Is20By20 == len1 = 20 /\ len2 = 20 /\ run \in {1, 2}

C10_AsStated == (Is20By20 /\ pc = "convert") => nadjust >= 2

\* C10, amended: a 20-digit by 20-digit multiplication takes the standard path
\* and the mid-loop normalization never fires in it.
C10_NeverMidLoop ==
    Is20By20 =>
        /\ pc \notin {"fast", "fast_emit", "reset"}
        /\ nadjust = 0

-----------------------------------------------------------------------------
(* States in which each claim's case has happened.                         *)

\* C1: a product on the standard path of the 64-bit build, cut below its exact
\* scale, nonzero, with a leading zero removed.
C1_Witness ==
    /\ Returned
    /\ size_t = 8
    /\ ~FastPath
    /\ prod.n_scale < n1.n_scale + n2.n_scale
    /\ prod.n_len < n1.n_len + n2.n_len
    /\ ~AllZero(Digits(prod))
    /\ Fill(n1.n_len + n2.n_len - prod.n_len, 0) \o Digits(prod) = ExactTruncated

\* C2: 1.23 * 4.5 at target scale 10 has returned with scale 3.
C2_Witness ==
    /\ Returned
    /\ n1 = Num(PLUS, <<1, 2, 3>>, 2)
    /\ n2 = Num(PLUS, <<4, 5>>, 1)
    /\ scale = 10
    /\ prod.n_scale = 3

\* C3: operands of different signs, neither zero, whose product is cut to zero
\* and returned PLUS.
C3_Witness ==
    /\ Returned
    /\ n1.n_sign # n2.n_sign
    /\ ~AllZero(n1.n_value)
    /\ ~AllZero(n2.n_value)
    /\ AllZero(Digits(prod))
    /\ prod.n_sign = PLUS

\* C4: the second product has returned, equal to the first, for operands of
\* different signs of which only one fits a limb.
C4_Witness ==
    /\ pc = "done"
    /\ run = 2
    /\ n1.n_sign # n2.n_sign
    /\ len1 <= BC_MUL_UINT_DIGITS
    /\ len2 > BC_MUL_UINT_DIGITS
    /\ ~AllZero(Digits(prod))
    /\ prod = saved.out

\* C5: 1.2345 * 1 at target scale 2 has returned with scale 4.
C5_Witness == IsC5Call /\ prod.n_scale = 4

\* C6: the forced bc_standard_mul has returned the fast path's digits for two
\* operands of exactly W digits.
C6_Witness ==
    /\ pc = "done"
    /\ run = 3
    /\ len1 = BC_MUL_UINT_DIGITS
    /\ len2 = BC_MUL_UINT_DIGITS
    /\ ~AllZero(prod.n_value)
    /\ prod.n_value = saved.raw

\* C7: a multiply-add after the second mid-loop normalization, the first
\* operand having more than twice the threshold's limbs.
C7_Witness ==
    /\ pc = "inner"
    /\ j < n2_arr_size
    /\ nadjust >= 2
    /\ n1_arr_size > 2 * BC_MUL_MAX_ADD_COUNT
    /\ n2_arr_size > BC_MUL_MAX_ADD_COUNT

\* C8: the scalar loop has ended after bulk writes of an even number of limbs.
C8_Witness ==
    /\ pc = "last"
    /\ pend = 0
    /\ prod_arr_size = 3
    /\ \A p \in 1..Len(writes) : writes[p] = 1

\* C9: a limb is about to be unpacked after a final normalization that had a
\* carry to move.
C9_Witness ==
    /\ pc = "emit"
    /\ i = 1
    /\ prod_arr_size >= 3
    /\ prod_uint[1] # UZero
    /\ prod_uint[prod_arr_size] # UZero
    /\ n1_uint[1] * 2 > BC_MUL_UINT_OVERFLOW
    /\ n2_uint[1] * 2 > BC_MUL_UINT_OVERFLOW

\* C10: the accumulation of a 20-digit by 20-digit product has ended on the
\* 32-bit build with no mid-loop normalization.
C10_Witness == Is20By20 /\ pc = "convert" /\ size_t = 4 /\ nadjust = 0

=============================================================================
